---- MODULE Spec2Model ----
(***************************************************************************)
(* Model of the two maintenance scripts fix_code_url.py and                *)
(* fix_submission.py.  Strings are sequences of one-character strings,     *)
(* Python values are tagged records, and a file holds a YAML node tree     *)
(* that yaml.safe_load turns into values and yaml.dump produces from them. *)
(***************************************************************************)
EXTENDS Integers, Sequences, FiniteSets, TLC

\* ------------------------------------------------------------------------
\* Bounds of the model
\* ------------------------------------------------------------------------
\* Longest instruction string enumerated as an input.
MaxLen == 5
\* Longest file name enumerated as an input of validate_filename.
MaxName == 3
\* Most single-file runs followed from one initial file.
MaxRuns == 2

\* ------------------------------------------------------------------------
\* Characters and strings
\* ------------------------------------------------------------------------
Digits == {"0", "1", "2", "3", "4", "5", "6", "7", "8", "9"}

Lower == {"a", "b", "c", "d", "e", "f", "g", "h", "i", "j", "k", "l", "m",
          "n", "o", "p", "q", "r", "s", "t", "u", "v", "w", "x", "y", "z"}

Upper == {"A", "B", "C", "D", "E", "F", "G", "H", "I", "J", "K", "L", "M",
          "N", "O", "P", "Q", "R", "S", "T", "U", "V", "W", "X", "Y", "Z"}

\* The class \s of the regular expressions and of str.strip().
Space == {" ", "\t", "\n", "\r"}

\* The class [a-zA-Z0-9_.-] of validate_filename.
AllowedChar == Lower \cup Upper \cup Digits \cup {"_", ".", "-"}

\* s[i..] for a 1-based i.
Drop(s, i) == SubSeq(s, i, Len(s))

StartsWith(s, p) == Len(s) >= Len(p) /\ SubSeq(s, 1, Len(p)) = p

EndsWith(s, p) == Len(s) >= Len(p) /\ SubSeq(s, Len(s) - Len(p) + 1, Len(s)) = p

\* The number of leading characters of s that lie in class C.
RECURSIVE Span(_, _)
Span(s, C) == IF s # <<>> /\ Head(s) \in C THEN 1 + Span(Tail(s), C) ELSE 0

\* The number of trailing characters of s that lie in class C.
RECURSIVE SpanBack(_, _)
SpanBack(s, C) ==
    IF s # <<>> /\ s[Len(s)] \in C
    THEN 1 + SpanBack(SubSeq(s, 1, Len(s) - 1), C)
    ELSE 0

strip(s) ==
    LET a == Span(s, Space)
        b == SpanBack(s, Space)
    IN  IF a = Len(s) THEN <<>> ELSE SubSeq(s, a + 1, Len(s) - b)

rstrip_dot(s) == SubSeq(s, 1, Len(s) - SpanBack(s, {"."}))

\* Length of the match of ^\s*\d+\.\s* at the start of s, or 0 without a match.
NumberingPrefix(s) ==
    LET a == Span(s, Space)
        b == Span(Drop(s, a + 1), Digits)
        hasDot == b > 0 /\ Len(s) > a + b /\ s[a + b + 1] = "."
    IN  IF hasDot THEN a + b + 1 + Span(Drop(s, a + b + 2), Space) ELSE 0

\* re.sub(r'^\s*\d+\.\s*', '', s): the pattern is anchored, so one removal.
sub_numbering(s) == Drop(s, NumberingPrefix(s) + 1)

\* The per-instruction cleanup of a string entry.
clean(inst) == rstrip_dot(sub_numbering(strip(inst)))

\* ------------------------------------------------------------------------
\* Python values
\* ------------------------------------------------------------------------
PyStr(s) == [t |-> "str", s |-> s]

PyInt(n) == [t |-> "int", n |-> n]

\* A float, kept as the digits of str(float): whole part and fraction.
PyFloat(w, f) == [t |-> "float", whole |-> w, frac |-> f]

PyNone == [t |-> "none"]

PyList(xs) == [t |-> "list", items |-> xs]

\* A dict is a function from the keys it holds to their values.
PyDict(f) == [t |-> "dict", d |-> f]

EmptyDict == PyDict([k \in {} |-> PyNone])

\* Python's truth value of v ("if v", "not v").
Truthy(v) ==
    CASE v.t = "str" -> v.s # <<>>
      [] v.t = "int" -> v.n # 0
      [] v.t = "float" -> ~(v.whole = <<"0">> /\ v.frac = <<"0">>)
      [] v.t = "none" -> FALSE
      [] v.t = "list" -> v.items # <<>>
      [] v.t = "dict" -> DOMAIN v.d # {}

\* dict.get(key, default)
Get(data, key, default) == IF key \in DOMAIN data.d THEN data.d[key] ELSE default

DigitChars == <<"0", "1", "2", "3", "4", "5", "6", "7", "8", "9">>

DigitValue(c) == CHOOSE d \in 0..9 : DigitChars[d + 1] = c

RECURSIVE IntToStr(_)
IntToStr(n) ==
    IF n < 10 THEN <<DigitChars[n + 1]>>
    ELSE IntToStr(n \div 10) \o <<DigitChars[(n % 10) + 1]>>

\* The value of the digit string s in the given base.
RECURSIVE StrToInt(_, _)
StrToInt(s, base) ==
    IF s = <<>> THEN 0
    ELSE StrToInt(SubSeq(s, 1, Len(s) - 1), base) * base + DigitValue(s[Len(s)])

\* str(v) for the scalar values an instruction entry can be.
py_str(v) ==
    CASE v.t = "str" -> v.s
      [] v.t = "int" -> IntToStr(v.n)
      [] v.t = "float" -> v.whole \o <<".">> \o v.frac
      [] v.t = "none" -> <<"N", "o", "n", "e">>

\* ------------------------------------------------------------------------
\* YAML and JSON: a file's text as a node tree
\* ------------------------------------------------------------------------
Scalar(style, text) == [k |-> "scalar", style |-> style, text |-> text]

SeqNode(items) == [k |-> "seq", items |-> items]

MapNode(f) == [k |-> "map", d |-> f]

AllIn(s, C) == \A i \in 1..Len(s) : s[i] \in C

NullWords == {<<>>, <<"~">>, <<"n", "u", "l", "l">>, <<"N", "u", "l", "l">>,
              <<"N", "U", "L", "L">>}

\* YAML 1.1 int: 0 or [1-9][0-9]*.
IsDecimal(text) ==
    /\ text # <<>>
    /\ AllIn(text, Digits)
    /\ (text[1] = "0" => Len(text) = 1)

\* YAML 1.1 int: 0[0-7]+, read in base 8.
IsOctal(text) ==
    /\ Len(text) >= 2
    /\ text[1] = "0"
    /\ AllIn(text, {"0", "1", "2", "3", "4", "5", "6", "7"})

\* YAML 1.1 float: [0-9]+\.[0-9]* or \.[0-9]+ (no sign, no exponent here).
IsFloat(text) ==
    LET w == Span(text, Digits)
    IN  /\ Len(text) > w
        /\ text[w + 1] = "."
        /\ AllIn(Drop(text, w + 2), Digits)
        /\ Len(text) >= 2

\* Digits without leading zeros, "0" when nothing is left.
TrimLeadingZeros(s) ==
    LET z == Span(s, {"0"})
    IN  IF z = Len(s) THEN <<"0">> ELSE Drop(s, z + 1)

\* Digits without trailing zeros, "0" when nothing is left.
TrimTrailingZeros(s) ==
    LET z == SpanBack(s, {"0"})
    IN  IF z = Len(s) THEN <<"0">> ELSE SubSeq(s, 1, Len(s) - z)

\* The implicit type of a plain scalar (the resolver of yaml.safe_load).
Resolve(text) ==
    IF text \in NullWords THEN PyNone
    ELSE IF IsDecimal(text) THEN PyInt(StrToInt(text, 10))
    ELSE IF IsOctal(text) THEN PyInt(StrToInt(text, 8))
    ELSE IF IsFloat(text)
         THEN LET w == Span(text, Digits)
              IN  PyFloat(TrimLeadingZeros(SubSeq(text, 1, w)),
                          TrimTrailingZeros(Drop(text, w + 2)))
    ELSE PyStr(text)

\* Characters a string may hold and still be written as a plain scalar.
PlainChars == Lower \cup Upper \cup Digits \cup {"_", ".", "-", "/", ":"}

\* Whether yaml.dump writes the string s plain; otherwise it is quoted.
PlainOK(s) ==
    /\ s # <<>>
    /\ AllIn(s, PlainChars)
    /\ s[1] \in Lower \cup Upper \cup Digits
    /\ s[Len(s)] # ":"
    /\ Resolve(s).t = "str"

RECURSIVE yaml_load(_)
yaml_load(node) ==
    CASE node.k = "scalar" ->
            IF node.style = "quoted" THEN PyStr(node.text) ELSE Resolve(node.text)
      [] node.k = "seq" ->
            PyList([i \in 1..Len(node.items) |-> yaml_load(node.items[i])])
      [] node.k = "map" ->
            PyDict([key \in DOMAIN node.d |-> yaml_load(node.d[key])])

RECURSIVE yaml_dump(_)
yaml_dump(v) ==
    CASE v.t = "str" -> Scalar(IF PlainOK(v.s) THEN "plain" ELSE "quoted", v.s)
      [] v.t = "int" -> Scalar("plain", IntToStr(v.n))
      [] v.t = "float" -> Scalar("plain", v.whole \o <<".">> \o v.frac)
      [] v.t = "none" -> Scalar("plain", <<"n", "u", "l", "l">>)
      [] v.t = "list" -> SeqNode([i \in 1..Len(v.items) |-> yaml_dump(v.items[i])])
      [] v.t = "dict" -> MapNode([key \in DOMAIN v.d |-> yaml_dump(v.d[key])])

\* JSON text: every string is quoted, numbers and null are bare.
RECURSIVE json_load(_)
json_load(node) ==
    CASE node.k = "scalar" ->
            IF node.style = "quoted" THEN PyStr(node.text)
            ELSE IF node.text = <<"n", "u", "l", "l">> THEN PyNone
            ELSE PyInt(StrToInt(node.text, 10))
      [] node.k = "seq" ->
            PyList([i \in 1..Len(node.items) |-> json_load(node.items[i])])
      [] node.k = "map" ->
            PyDict([key \in DOMAIN node.d |-> json_load(node.d[key])])

RECURSIVE json_dump(_)
json_dump(v) ==
    CASE v.t = "str" -> Scalar("quoted", v.s)
      [] v.t = "int" -> Scalar("plain", IntToStr(v.n))
      [] v.t = "none" -> Scalar("plain", <<"n", "u", "l", "l">>)
      [] v.t = "list" -> SeqNode([i \in 1..Len(v.items) |-> json_dump(v.items[i])])
      [] v.t = "dict" -> MapNode([key \in DOMAIN v.d |-> json_dump(v.d[key])])

\* A file: YAML text, text only the JSON parser accepts (tab-indented JSON),
\* or text neither parser accepts.
YamlFile(v) == [fmt |-> "yaml", root |-> yaml_dump(v)]

JsonFile(v) == [fmt |-> "json", root |-> json_dump(v)]

GarbageFile == [fmt |-> "garbage", root |-> Scalar("plain", <<>>)]

\* What a load step returns: the value, or that it raised.
Loaded(v) == [ok |-> TRUE, data |-> v]

Raised == [ok |-> FALSE, data |-> PyNone]

\* fix_code_url's load: yaml.safe_load only.
load_yaml(file) == IF file.fmt = "yaml" THEN Loaded(yaml_load(file.root)) ELSE Raised

\* fix_submission_file's load: yaml.safe_load, and json.load on a YAMLError.
load_yaml_or_json(file) ==
    IF file.fmt = "yaml" THEN Loaded(yaml_load(file.root))
    ELSE IF file.fmt = "json" THEN Loaded(json_load(file.root))
    ELSE Raised

\* ------------------------------------------------------------------------
\* Constants of the scripts
\* ------------------------------------------------------------------------
\* 'NOT_SPECIFIED'
NOT_SPECIFIED == <<"N", "O", "T", "_", "S", "P", "E", "C", "I", "F", "I", "E", "D">>

\* 'http://www.quantum-espresso.org/download'
FALLBACK_URL ==
    <<"h", "t", "t", "p", ":", "/", "/", "w", "w", "w", ".", "q", "u", "a", "n", "t", "u", "m", "-", "e">>
    \o <<"s", "p", "r", "e", "s", "s", "o", ".", "o", "r", "g", "/", "d", "o", "w", "n", "l", "o", "a", "d">>

\* 'custom_code'
CUSTOM_CODE == <<"c", "u", "s", "t", "o", "m", "_", "c", "o", "d", "e">>

HTTP == <<"h", "t", "t", "p", ":", "/", "/">>

HTTPS == <<"h", "t", "t", "p", "s", ":", "/", "/">>

\* ------------------------------------------------------------------------
\* fix_code_url
\* ------------------------------------------------------------------------
\* What one call did: its return value, the messages it printed, whether it
\* wrote the file, and the file's content afterwards.
Outcome(ret, report, wrote, file) ==
    [ret |-> ret, report |-> report, wrote |-> wrote, file |-> file]

\* data[key] = value
SetItem(data, key, value) ==
    PyDict([k \in DOMAIN data.d \cup {key} |-> IF k = key THEN value ELSE data.d[k]])

\* The test of line 16: "fix", "valid", or "raise" when code_url.strip does
\* not exist (a truthy value that is not a string).
code_url_check(code_url) ==
    IF ~Truthy(code_url) THEN "fix"
    ELSE IF code_url = PyStr(NOT_SPECIFIED) THEN "fix"
    ELSE IF code_url.t # "str" THEN "raise"
    ELSE IF strip(code_url.s) = <<>> THEN "fix"
    ELSE "valid"

\* One call of fix_code_url on a file; ioOk says whether opening the file for
\* writing succeeds.
fix_code_url(file, ioOk) ==
    LET l == load_yaml(file)
    IN  IF ~l.ok \/ l.data.t # "dict" THEN Outcome(FALSE, <<"error">>, FALSE, file)
        ELSE LET check == code_url_check(Get(l.data, "code_url", PyStr(<<>>)))
             IN  CASE check = "raise" -> Outcome(FALSE, <<"error">>, FALSE, file)
                   [] check = "valid" -> Outcome(FALSE, <<"valid">>, FALSE, file)
                   [] check = "fix" ->
                        IF ioOk
                        THEN Outcome(TRUE, <<"fixed">>, TRUE,
                                     YamlFile(SetItem(l.data, "code_url",
                                                      PyStr(FALLBACK_URL))))
                        ELSE Outcome(FALSE, <<"fixed", "error">>, FALSE, file)

\* ------------------------------------------------------------------------
\* fix_submission_file
\* ------------------------------------------------------------------------
\* The loop of lines 52-61 over the entries of an instruction list.
RECURSIVE clean_instructions(_)
clean_instructions(insts) ==
    IF insts = <<>> THEN <<>>
    ELSE LET inst == Head(insts)
             rest == clean_instructions(Tail(insts))
         IN  IF inst.t = "str"
             THEN IF clean(inst.s) # <<>> THEN <<PyStr(clean(inst.s))>> \o rest
                  ELSE rest
             ELSE <<PyStr(py_str(inst))>> \o rest

\* instruction_list without the isinstance(instructions, str) promotion: the
\* loop then iterates the characters of a bare string.
instruction_list_no_wrap(claim) ==
    LET instructions == Get(claim, "instruction", PyList(<<>>))
    IN  CASE instructions.t = "str" ->
                Loaded([i \in 1..Len(instructions.s) |-> PyStr(<<instructions.s[i]>>)])
          [] instructions.t = "list" -> Loaded(instructions.items)
          [] instructions.t \in {"none", "int", "float"} -> Raised

\* Lines 45-48: the instruction field as the sequence the loop iterates, or
\* that iterating it raises (None, a number).
instruction_list(claim) ==
    LET instructions == Get(claim, "instruction", PyList(<<>>))
    IN  CASE instructions.t = "str" -> Loaded(<<instructions>>)
          [] instructions.t = "list" -> Loaded(instructions.items)
          [] instructions.t \in {"none", "int", "float"} -> Raised

\* Lines 39-63 for one claim: the fixed claim, or that it raised.
fix_claim(claim) ==
    IF claim.t # "dict" THEN Raised
    ELSE LET insts == instruction_list(claim)
         IN  IF ~insts.ok THEN Raised
             ELSE Loaded(PyDict([claim |-> Get(claim, "claim", PyStr(<<>>)),
                                 instruction |->
                                     PyList(clean_instructions(insts.data))]))

\* The loop of line 38 over the claims.
RECURSIVE fix_claims(_)
fix_claims(claims) ==
    IF claims = <<>> THEN Loaded(<<>>)
    ELSE LET c == fix_claim(Head(claims))
             rest == fix_claims(Tail(claims))
         IN  IF c.ok /\ rest.ok THEN Loaded(<<c.data>> \o rest.data) ELSE Raised

\* fixed_fields keeping the source's claim_type when it has one.
fixed_fields_keeps_claim_type(data) ==
    PyDict([username |-> Get(data, "username", PyStr(<<>>)),
            paper_title |-> Get(data, "paper_title", PyStr(<<>>)),
            paper_pdf |-> Get(data, "paper_pdf", PyStr(<<>>)),
            identifier |-> Get(data, "identifier", PyStr(<<>>)),
            claim_type |-> Get(data, "claim_type", PyStr(CUSTOM_CODE)),
            code_url |-> Get(data, "code_url", PyStr(NOT_SPECIFIED)),
            data_url |-> Get(data, "data_url", PyStr(NOT_SPECIFIED)),
            claims |-> PyList(<<>>),
            non_reproducible_claims |->
                Get(data, "non_reproducible_claims", PyList(<<>>))])

\* fixed_fields writing the sentinel as code_url whatever the source holds.
fixed_fields_resets_code_url(data) ==
    PyDict([username |-> Get(data, "username", PyStr(<<>>)),
            paper_title |-> Get(data, "paper_title", PyStr(<<>>)),
            paper_pdf |-> Get(data, "paper_pdf", PyStr(<<>>)),
            identifier |-> Get(data, "identifier", PyStr(<<>>)),
            claim_type |-> PyStr(CUSTOM_CODE),
            code_url |-> PyStr(NOT_SPECIFIED),
            data_url |-> Get(data, "data_url", PyStr(NOT_SPECIFIED)),
            claims |-> PyList(<<>>),
            non_reproducible_claims |->
                Get(data, "non_reproducible_claims", PyList(<<>>))])

\* Lines 24-34: the fixed record before its claims are filled in.
fixed_fields(data) ==
    PyDict([username |-> Get(data, "username", PyStr(<<>>)),
            paper_title |-> Get(data, "paper_title", PyStr(<<>>)),
            paper_pdf |-> Get(data, "paper_pdf", PyStr(<<>>)),
            identifier |-> Get(data, "identifier", PyStr(<<>>)),
            claim_type |-> PyStr(CUSTOM_CODE),
            code_url |-> Get(data, "code_url", PyStr(NOT_SPECIFIED)),
            data_url |-> Get(data, "data_url", PyStr(NOT_SPECIFIED)),
            claims |-> PyList(<<>>),
            non_reproducible_claims |->
                Get(data, "non_reproducible_claims", PyList(<<>>))])

\* Lines 37-64: the claims of the fixed record, or that the loop raised.  A
\* truthy claims value that is not a list has no element with a get method.
fixed_claims(data) ==
    IF "claims" \in DOMAIN data.d /\ Truthy(data.d["claims"])
    THEN IF data.d["claims"].t = "list" THEN fix_claims(data.d["claims"].items)
         ELSE Raised
    ELSE Loaded(<<>>)

url_fields == <<"paper_pdf", "code_url", "data_url">>

\* Lines 69-72 for one field: "ok", "warn", or "raise" when url.startswith
\* does not exist.
url_check(url) ==
    IF ~Truthy(url) THEN "ok"
    ELSE IF url = PyStr(NOT_SPECIFIED) THEN "ok"
    ELSE IF url.t # "str" THEN "raise"
    ELSE IF StartsWith(url.s, HTTP) \/ StartsWith(url.s, HTTPS) THEN "ok"
    ELSE "warn"

\* Lines 67-72: the warnings printed, and whether the loop raised (at the
\* first field that does, after the warnings it printed before).
RECURSIVE validate_urls(_, _)
validate_urls(fixed_data, fields) ==
    IF fields = <<>> THEN [ok |-> TRUE, warnings |-> <<>>]
    ELSE LET check == url_check(fixed_data.d[Head(fields)])
             rest == validate_urls(fixed_data, Tail(fields))
         IN  CASE check = "raise" -> [ok |-> FALSE, warnings |-> <<>>]
               [] check = "ok" -> rest
               [] check = "warn" ->
                    [ok |-> rest.ok, warnings |-> <<Head(fields)>> \o rest.warnings]

\* Lines 23-64: the record transformation, or that it raised.
normalize(data) ==
    IF data.t # "dict" THEN Raised
    ELSE LET claims == fixed_claims(data)
         IN  IF ~claims.ok THEN Raised
             ELSE Loaded(SetItem(fixed_fields(data), "claims", PyList(claims.data)))

\* One call of fix_submission_file(input, output); src is the input file's
\* content, dst the content at the output path before the call, ioOk whether
\* opening the output for writing succeeds.
fix_submission_file(src, dst, ioOk) ==
    LET l == load_yaml_or_json(src)
        fixed == IF l.ok THEN normalize(l.data) ELSE Raised
        urls == IF fixed.ok THEN validate_urls(fixed.data, url_fields)
                ELSE [ok |-> FALSE, warnings |-> <<>>]
    IN  IF ~fixed.ok THEN Outcome(FALSE, <<"error">>, FALSE, dst)
        ELSE IF ~urls.ok THEN Outcome(FALSE, urls.warnings \o <<"error">>, FALSE, dst)
        ELSE IF ~ioOk THEN Outcome(FALSE, urls.warnings \o <<"error">>, FALSE, dst)
        ELSE Outcome(TRUE, urls.warnings \o <<"success">>, TRUE, YamlFile(fixed.data))

\* ------------------------------------------------------------------------
\* validate_filename
\* ------------------------------------------------------------------------
\* Index of the last "/" of s, 0 when it has none.
RECURSIVE LastSlash(_)
LastSlash(s) ==
    IF s = <<>> THEN 0
    ELSE IF s[Len(s)] = "/" THEN Len(s)
    ELSE LastSlash(SubSeq(s, 1, Len(s) - 1))

\* os.path.basename
basename(path) == Drop(path, LastSlash(path) + 1)

\* re.match(r'^[a-zA-Z0-9_.-]+$', s): one or more allowed characters up to the
\* end of the string; "$" also matches just before a newline that ends it.
match_allowed(s) ==
    LET n == Span(s, AllowedChar)
    IN  /\ n > 0
        /\ \/ n = Len(s)
           \/ n = Len(s) - 1 /\ s[Len(s)] = "\n"

\* re.sub(r'[^a-zA-Z0-9_.-]', '_', s)
sub_disallowed(s) == [i \in 1..Len(s) |-> IF s[i] \in AllowedChar THEN s[i] ELSE "_"]

\* validate_filename(filename): the pair it returns.
validate_filename(name) ==
    LET base == basename(name)
    IN  IF match_allowed(base) THEN [valid |-> TRUE, name |-> base]
        ELSE [valid |-> FALSE, name |-> sub_disallowed(base)]

\* ------------------------------------------------------------------------
\* The batch drivers' loops
\* ------------------------------------------------------------------------
\* Where the loop of batch_fix_submissions goes after a file (lines 139-142):
\* on, whatever fix_submission_file returned.
after_file_aborts(ok) == IF ok THEN "loop" ELSE "done"

after_file(ok) == "loop"

\* The output path of lines 125-137: the directory ("in": the input directory,
\* "out": the separate output directory) and the file name in it.
output_file(name, separate) ==
    LET v == validate_filename(name)
    IN  [d |-> IF separate THEN "out" ELSE "in",
         name |-> IF v.valid THEN name ELSE v.name]

\* ------------------------------------------------------------------------
\* State
\* ------------------------------------------------------------------------
VARIABLES
    file,             \* the content of the one file the single-file runs work on
    prev,             \* its content before the last call
    last,             \* the last call: operation, return value, messages
    runs,             \* calls made so far
    filename,         \* the argument of validate_filename
    verdict,          \* what validate_filename returned
    dir,              \* the input directory: file name -> content
    outdir,           \* the output directory of a batch run: file name -> content
    driver,           \* the batch driver running and where its output goes
    submission_files, \* the files the driver discovered, in processing order
    pos,              \* how many of them have been processed
    successful,       \* batch_fix_submissions' counter
    failed,           \* batch_fix_submissions' counter
    fixed_count,      \* batch_fix_code_urls' counter
    written           \* per processed file: its name, its output path, the result

fileVars == <<file, prev, last, runs>>

nameVars == <<filename, verdict>>

batchVars == <<dir, outdir, driver, submission_files, pos, successful, failed,
               fixed_count, written>>

vars == <<file, prev, last, runs, filename, verdict, dir, outdir, driver,
          submission_files, pos, successful, failed, fixed_count, written>>

\* A call's record also keeps the operation and return value of the call
\* before it (pop, pret).
NoCall == [op |-> "none", ret |-> FALSE, report |-> <<>>, wrote |-> FALSE,
           ioOk |-> TRUE, pop |-> "none", pret |-> FALSE]

Call(op, o, ioOk, before) ==
    [op |-> op, ret |-> o.ret, report |-> o.report, wrote |-> o.wrote, ioOk |-> ioOk,
     pop |-> before.op, pret |-> before.ret]

NoVerdict == [called |-> FALSE, valid |-> FALSE, name |-> <<>>]

EmptyDir == [n \in {} |-> GarbageFile]

FileIdle ==
    /\ file = GarbageFile
    /\ prev = GarbageFile
    /\ last = NoCall
    /\ runs = 0

NameIdle ==
    /\ filename = <<>>
    /\ verdict = NoVerdict

BatchIdle ==
    /\ dir = EmptyDir
    /\ outdir = EmptyDir
    /\ driver = [name |-> "none", separate |-> FALSE, pc |-> "done"]
    /\ submission_files = <<>>
    /\ pos = 0
    /\ successful = 0
    /\ failed = 0
    /\ fixed_count = 0
    /\ written = <<>>

\* ------------------------------------------------------------------------
\* Input files of the single-file runs
\* ------------------------------------------------------------------------
\* All strings over alphabet A of length at most n.
Strings(A, n) == UNION {[1..k -> A] : k \in 0..n}

InstructionAlphabet == {"1", ".", " ", "a"}

InstructionStrings == Strings(InstructionAlphabet, MaxLen)

\* A record holding one claim with the given instruction value.
OneClaim(instruction) ==
    PyDict([claims |->
        PyList(<<PyDict([claim |-> PyStr(<<"X">>), instruction |-> instruction])>>)])

\* Instruction values that are not one string: lists with non-string entries,
\* several entries, no entries, and values the loop cannot iterate.
OtherInstructions ==
    {PyList(<<>>),
     PyList(<<PyInt(5)>>),
     PyList(<<PyInt(12)>>),
     PyList(<<PyFloat(<<"1">>, <<"5">>)>>),
     PyList(<<PyNone>>),
     PyList(<<PyStr(<<"1", ".", " ", "a", ".">>), PyStr(<<".">>), PyInt(0),
              PyStr(<<"a">>)>>),
     PyNone,
     PyInt(3)}

ClaimRecords ==
    {OneClaim(PyStr(s)) : s \in InstructionStrings}
    \cup {OneClaim(PyList(<<PyStr(s)>>)) : s \in InstructionStrings}
    \cup {OneClaim(i) : i \in OtherInstructions}
    \cup {PyDict([claims |-> PyList(<<PyDict([claim |-> PyStr(<<"X">>)])>>)]),
          PyDict([claims |-> PyList(<<PyDict([instruction |-> PyStr(<<"a">>)]),
                                      PyDict([claim |-> PyNone,
                                              instruction |-> PyStr(<<"1", ".">>)])>>)]),
          PyDict([claims |-> PyList(<<PyInt(1)>>)]),
          PyDict([claims |-> PyList(<<>>)]),
          PyDict([claims |-> PyNone]),
          PyDict([claims |-> PyInt(3)]),
          PyDict([claims |-> PyStr(<<"a">>)])}

\* A dict with the keys of choice that are not "absent".
Absent == [t |-> "absent"]

WithKeys(choice) ==
    PyDict([k \in {key \in DOMAIN choice : choice[key] # Absent} |-> choice[k]])

UrlA == HTTP \o <<"a">>

CodeUrlValues ==
    {Absent, PyNone, PyStr(<<>>), PyStr(<<" ">>), PyStr(<<" ", "\t">>),
     PyStr(NOT_SPECIFIED), PyStr(UrlA), PyStr(HTTPS \o <<"a">>), PyStr(<<"a">>),
     PyStr(<<"1", "2">>), PyStr(<<" ", "a">>), PyStr(FALLBACK_URL),
     PyInt(0), PyInt(5), PyList(<<>>), PyList(<<PyStr(UrlA)>>)}

PaperPdfValues == {Absent, PyStr(<<>>), PyStr(UrlA), PyStr(<<"a">>), PyInt(5)}

DataUrlValues == {Absent, PyStr(NOT_SPECIFIED), PyStr(<<"a">>), PyNone}

ClaimTypeValues == {Absent, PyStr(CUSTOM_CODE), PyStr(<<"x">>)}

UsernameValues == {Absent, PyStr(<<"u">>), PyNone}

OpaqueValues == {Absent, PyList(<<PyStr(<<"1", ".">>), PyInt(7)>>)}

FieldRecords ==
    {WithKeys([code_url |-> c, paper_pdf |-> p, data_url |-> d, claim_type |-> ct,
               username |-> u, non_reproducible_claims |-> n]) :
        c \in CodeUrlValues, p \in PaperPdfValues, d \in DataUrlValues,
        ct \in ClaimTypeValues, u \in UsernameValues, n \in OpaqueValues}

\* Files whose content is no record, or no YAML.
OddFiles ==
    {GarbageFile, YamlFile(PyNone), YamlFile(PyList(<<>>)), YamlFile(PyStr(<<"a">>)),
     JsonFile(OneClaim(PyStr(<<"1", ".", " ", "a", ".">>))),
     JsonFile(WithKeys([code_url |-> PyStr(<<>>)])),
     JsonFile(PyList(<<>>))}

InitFiles ==
    {YamlFile(r) : r \in ClaimRecords \cup FieldRecords} \cup OddFiles

\* ------------------------------------------------------------------------
\* Single-file runs: fix_code_url(path) and fix_submission_file(path), in
\* place, in any order
\* ------------------------------------------------------------------------
Init ==
    /\ file \in InitFiles
    /\ prev = file
    /\ last = NoCall
    /\ runs = 0
    /\ NameIdle
    /\ BatchIdle

RunFixCodeUrl ==
    /\ runs < MaxRuns
    /\ \E ioOk \in BOOLEAN :
        LET o == fix_code_url(file, ioOk)
        IN  /\ file' = o.file
            /\ last' = Call("fix_code_url", o, ioOk, last)
    /\ prev' = file
    /\ runs' = runs + 1
    /\ UNCHANGED <<nameVars, batchVars>>

RunFixSubmission ==
    /\ runs < MaxRuns
    /\ \E ioOk \in BOOLEAN :
        LET o == fix_submission_file(file, file, ioOk)
        IN  /\ file' = o.file
            /\ last' = Call("fix_submission_file", o, ioOk, last)
    /\ prev' = file
    /\ runs' = runs + 1
    /\ UNCHANGED <<nameVars, batchVars>>

Next == RunFixCodeUrl \/ RunFixSubmission

Spec == Init /\ [][Next]_vars

\* ------------------------------------------------------------------------
\* Properties of the single-file runs
\* ------------------------------------------------------------------------
\* The record the last call read, and the record the file holds now.
Source == load_yaml_or_json(prev)

Output == load_yaml_or_json(file)

SourceIsRecord == Source.ok /\ Source.data.t = "dict"

\* The last call was fix_code_url on a YAML file holding a record.
PatchedRecord == last.op = "fix_code_url" /\ prev.fmt = "yaml" /\ SourceIsRecord

\* The last call was a fix_submission_file that returned True.
Normalized == last.op = "fix_submission_file" /\ last.ret

SourceCodeUrl == Get(Source.data, "code_url", Absent)

WhitespaceOnly(v) == v.t = "str" /\ AllIn(v.s, Space)

\* The values the patcher's contract lists: missing, None, "", whitespace-only,
\* the sentinel.
ListedForFix(v) ==
    v \in {Absent, PyNone, PyStr(NOT_SPECIFIED)} \/ WhitespaceOnly(v)

\* A value that is not an empty string or an empty collection.
NonEmpty(v) ==
    /\ v.t = "str" => v.s # <<>>
    /\ v.t = "list" => v.items # <<>>
    /\ v.t = "dict" => DOMAIN v.d # {}

\* The call fixed the record: True, the file rewritten with the fallback URL.
FixedAsClaimed ==
    /\ last.ret
    /\ last.wrote
    /\ last.report = <<"fixed">>
    /\ Output = Loaded(SetItem(Source.data, "code_url", PyStr(FALLBACK_URL)))

\* The call reported "already valid": False, nothing written.
ValidAsClaimed ==
    /\ ~last.ret
    /\ ~last.wrote
    /\ last.report = <<"valid">>
    /\ file = prev

\* C1 as stated: a record whose code_url is missing, None, "", whitespace-only
\* or the sentinel is fixed (fallback URL written, True returned); every other
\* non-empty code_url value is reported already valid (False returned, nothing
\* written, the record unchanged).  Stated for calls whose write succeeds.
C1_AsStated ==
    (PatchedRecord /\ last.ioOk) =>
        IF ListedForFix(SourceCodeUrl) THEN FixedAsClaimed
        ELSE (NonEmpty(SourceCodeUrl) => ValidAsClaimed)

\* C2: normalization is idempotent: a successful fix_submission_file run on
\* the output of a successful fix_submission_file run leaves the record as it
\* was.
C2_Idempotent ==
    (Normalized /\ last.pop = "fix_submission_file" /\ last.pret) =>
        Output = Source

OutputClaims == Output.data.d["claims"].items

BeginsWithNumbering(s) ==
    LET n == Span(s, Digits) IN n > 0 /\ Len(s) > n /\ s[n + 1] = "."

CleanEntry(e) ==
    /\ e.t = "str"
    /\ e.s # <<>>
    /\ ~BeginsWithNumbering(e.s)
    /\ e.s[Len(e.s)] # "."

\* C3: after a successful fix_submission_file run every claim's instruction is
\* a sequence whose entries are non-empty strings that neither begin with a
\* digits-then-period numbering prefix nor end with a period.
C3_InstructionInvariant ==
    Normalized =>
        \A i \in 1..Len(OutputClaims) :
            LET ins == OutputClaims[i].d["instruction"]
            IN  /\ ins.t = "list"
                /\ \A j \in 1..Len(ins.items) : CleanEntry(ins.items[j])

DataModelFields ==
    {"username", "paper_title", "paper_pdf", "identifier", "claim_type", "code_url",
     "data_url", "claims", "non_reproducible_claims"}

DefaultOf(key) ==
    CASE key \in {"username", "paper_title", "paper_pdf", "identifier"} -> PyStr(<<>>)
      [] key \in {"code_url", "data_url"} -> PyStr(NOT_SPECIFIED)
      [] key \in {"claims", "non_reproducible_claims"} -> PyList(<<>>)

Malformed(v) ==
    /\ v # Absent
    /\ Truthy(v)
    /\ v # PyStr(NOT_SPECIFIED)
    /\ ~(v.t = "str" /\ (StartsWith(v.s, HTTP) \/ StartsWith(v.s, HTTPS)))

\* C6: URL-shape validation never blocks writing: when the record loads, its
\* claims transform and the output can be opened, a malformed paper_pdf,
\* code_url or data_url only yields a warning; the record is written and True
\* returned.
C6_NonBlocking ==
    (/\ last.op = "fix_submission_file"
     /\ SourceIsRecord
     /\ normalize(Source.data).ok
     /\ last.ioOk
     /\ \E i \in 1..Len(url_fields) : Malformed(Get(Source.data, url_fields[i], Absent)))
    => (last.ret /\ last.wrote)

\* The source's claim list, when it is a non-empty list of claims.
SourceClaims ==
    IF SourceIsRecord /\ "claims" \in DOMAIN Source.data.d
       /\ Source.data.d["claims"].t = "list"
    THEN Source.data.d["claims"].items
    ELSE <<>>

\* The claims of the source whose instruction is a bare string of length > 0.
BareStringClaims ==
    {i \in 1..Len(SourceClaims) :
        /\ SourceClaims[i].t = "dict"
        /\ Get(SourceClaims[i], "instruction", Absent).t = "str"
        /\ SourceClaims[i].d["instruction"].s # <<>>}

\* C8 as stated: a bare string instruction of length > 0 becomes a sequence of
\* exactly one element, the cleaned string.
C8_AsStated ==
    Normalized =>
        \A i \in BareStringClaims :
            OutputClaims[i].d["instruction"] =
                PyList(<<PyStr(clean(SourceClaims[i].d["instruction"].s))>>)

\* C8 amended: a bare string instruction of length > 0 becomes a sequence of
\* exactly one element, the cleaned string, when the cleaned string is not
\* empty, and the empty sequence when it is.
C8_Amended ==
    Normalized =>
        \A i \in BareStringClaims :
            LET cleaned == clean(SourceClaims[i].d["instruction"].s)
            IN  OutputClaims[i].d["instruction"] =
                    IF cleaned = <<>> THEN PyList(<<>>) ELSE PyList(<<PyStr(cleaned)>>)

\* C8's case: the bare string "1. a." was normalized to the one entry "a".
C8_Witness ==
    /\ Normalized
    /\ BareStringClaims # {}
    /\ \E i \in BareStringClaims :
        /\ SourceClaims[i].d["instruction"] = PyStr(<<"1", ".", " ", "a", ".">>)
        /\ OutputClaims[i].d["instruction"] = PyList(<<PyStr(<<"a">>)>>)

\* The code_url a file holds, Absent when it holds none or is no record.
CodeUrlOf(f) ==
    LET l == load_yaml_or_json(f)
    IN  IF l.ok /\ l.data.t = "dict" THEN Get(l.data, "code_url", Absent) ELSE Absent

\* A non-empty, non-whitespace, non-sentinel string.
ValidCodeUrl(v) ==
    v.t = "str" /\ v.s # <<>> /\ ~WhitespaceOnly(v) /\ v # PyStr(NOT_SPECIFIED)

\* C10: once the file's code_url is a non-empty, non-whitespace, non-sentinel
\* string, every later in-place run keeps it: a fix_code_url run returns False
\* without writing, a fix_submission_file run leaves the same code_url.
C10_CodeUrlStable ==
    [][ValidCodeUrl(CodeUrlOf(file)) =>
            /\ CodeUrlOf(file') = CodeUrlOf(file)
            /\ last'.op = "fix_code_url" => (~last'.ret /\ ~last'.wrote)]_vars

\* C10's case: fix_code_url fixed the file, a later fix_submission_file run
\* rewrote it, and the fallback URL is still its code_url.
C10_Witness ==
    /\ Normalized
    /\ last.pop = "fix_code_url"
    /\ last.pret
    /\ CodeUrlOf(prev) = PyStr(FALLBACK_URL)
    /\ CodeUrlOf(file) = PyStr(FALLBACK_URL)

\* ------------------------------------------------------------------------
\* validate_filename on one file name
\* ------------------------------------------------------------------------
NameAlphabet == {"a", "_", ".", " ", "!", "/", "\n"}

FileNames ==
    Strings(NameAlphabet, MaxName)
    \cup {<<"b", "a", "d", " ", "f", "i", "l", "e", "!", ".", "y", "a", "m", "l">>,
          <<"a", ".", "y", "a", "m", "l", "\n">>,
          <<"s", "u", "b", " ", "d", "i", "r", "/", "o", "k", "-", "1", ".", "y", "m", "l">>}

NameInit ==
    /\ filename \in FileNames
    /\ verdict = NoVerdict
    /\ FileIdle
    /\ BatchIdle

Validate ==
    /\ ~verdict.called
    /\ LET v == validate_filename(filename)
       IN  verdict' = [called |-> TRUE, valid |-> v.valid, name |-> v.name]
    /\ UNCHANGED <<filename, fileVars, batchVars>>

NameNext == Validate

NameSpec == NameInit /\ [][NameNext]_vars

\* C7: validate_filename returns True with the base name unchanged exactly
\* when the base name is non-empty and holds only characters of
\* [a-zA-Z0-9_.-]; otherwise it returns False with the base name in which every
\* disallowed character is replaced by "_" and every allowed one is kept.
C7_Validate ==
    verdict.called =>
        LET base == basename(filename)
        IN  IF base # <<>> /\ AllIn(base, AllowedChar)
            THEN verdict.valid /\ verdict.name = base
            ELSE /\ ~verdict.valid
                 /\ Len(verdict.name) = Len(base)
                 /\ \A i \in 1..Len(base) :
                        verdict.name[i] = IF base[i] \in AllowedChar THEN base[i] ELSE "_"

\* ------------------------------------------------------------------------
\* Batch runs: batch_fix_submissions and batch_fix_code_urls on a directory
\* ------------------------------------------------------------------------
DotYaml == <<".", "y", "a", "m", "l">>

DotYml == <<".", "y", "m", "l">>

DotJson == <<".", "j", "s", "o", "n">>

\* The names a directory of the model may hold.
NamePool ==
    {<<"a", " ", "b", ".", "y", "a", "m", "l">>,
     <<"a", "_", "b", ".", "y", "a", "m", "l">>,
     <<"c", ".", "y", "m", "l">>,
     <<"d", "!", ".", "j", "s", "o", "n">>,
     <<"e", ".", "t", "x", "t">>}

\* What a file of the directory may hold: a record whose code_url needs the
\* fix, a record fix_code_url leaves alone, a record whose claims cannot be
\* iterated, text no parser accepts.
BatchContents ==
    {YamlFile(OneClaim(PyStr(<<"1", ".", " ", "a", ".">>))),
     YamlFile(WithKeys([code_url |-> PyStr(UrlA), username |-> PyStr(<<"u">>)])),
     YamlFile(PyDict([claims |-> PyInt(3)])),
     GarbageFile}

\* The sequences that list every element of S once: the orders in which
\* Path.glob may return the files matching one pattern.
Orders(S) ==
    {s \in [1..Cardinality(S) -> S] : \A i, j \in 1..Cardinality(S) : s[i] = s[j] => i = j}

Matching(suffix) == {n \in DOMAIN dir : EndsWith(n, suffix)}

BatchInit ==
    /\ \E S \in SUBSET NamePool : dir \in [S -> BatchContents]
    /\ outdir = EmptyDir
    /\ driver \in {[name |-> n, separate |-> s, pc |-> "start"] :
                      n \in {"batch_fix_submissions"}, s \in BOOLEAN}
                  \cup {[name |-> "batch_fix_code_urls", separate |-> FALSE,
                         pc |-> "start"]}
    /\ submission_files = <<>>
    /\ pos = 0
    /\ successful = 0
    /\ failed = 0
    /\ fixed_count = 0
    /\ written = <<>>
    /\ FileIdle
    /\ NameIdle

\* Lines 112-116 of fix_submission.py and 37-41 of fix_code_url.py: the files
\* found, pattern by pattern; the driver returns when there are none.
Discover ==
    /\ driver.pc = "start"
    /\ \E y \in Orders(Matching(DotYaml)), m \in Orders(Matching(DotYml)),
          j \in Orders(Matching(DotJson)) :
            LET found == IF driver.name = "batch_fix_submissions"
                         THEN y \o m \o j ELSE y \o m
            IN  /\ submission_files' = found
                /\ driver' = [driver EXCEPT !.pc = IF found = <<>> THEN "done" ELSE "loop"]
    /\ UNCHANGED <<dir, outdir, pos, successful, failed, fixed_count, written,
                   fileVars, nameVars>>

\* The directory with the content written at name.
Store(d, name, content) ==
    [n \in DOMAIN d \cup {name} |-> IF n = name THEN content ELSE d[n]]

\* One iteration of the loop of batch_fix_submissions (lines 121-142).
StepSubmissions ==
    /\ driver.name = "batch_fix_submissions"
    /\ driver.pc = "loop"
    /\ pos < Len(submission_files)
    /\ \E ioOk \in BOOLEAN :
        LET name == submission_files[pos + 1]
            out == output_file(name, driver.separate)
            o == fix_submission_file(dir[name], GarbageFile, ioOk)
        IN  /\ dir' = IF o.wrote /\ out.d = "in" THEN Store(dir, out.name, o.file)
                      ELSE dir
            /\ outdir' = IF o.wrote /\ out.d = "out" THEN Store(outdir, out.name, o.file)
                         ELSE outdir
            /\ successful' = IF o.ret THEN successful + 1 ELSE successful
            /\ failed' = IF o.ret THEN failed ELSE failed + 1
            /\ written' = Append(written, [input |-> name, output |-> out, ret |-> o.ret])
            /\ driver' = [driver EXCEPT !.pc = after_file(o.ret)]
    /\ pos' = pos + 1
    /\ UNCHANGED <<submission_files, fixed_count, fileVars, nameVars>>

\* One iteration of the loop of batch_fix_code_urls (lines 44-46).
StepCodeUrls ==
    /\ driver.name = "batch_fix_code_urls"
    /\ driver.pc = "loop"
    /\ pos < Len(submission_files)
    /\ \E ioOk \in BOOLEAN :
        LET name == submission_files[pos + 1]
            o == fix_code_url(dir[name], ioOk)
        IN  /\ dir' = IF o.wrote THEN Store(dir, name, o.file) ELSE dir
            /\ fixed_count' = IF o.ret THEN fixed_count + 1 ELSE fixed_count
            /\ written' = Append(written, [input |-> name,
                                           output |-> [d |-> "in", name |-> name],
                                           ret |-> o.ret])
    /\ pos' = pos + 1
    /\ UNCHANGED <<outdir, driver, submission_files, successful, failed, fileVars,
                   nameVars>>

\* The loop is over: the summary is printed and the driver returns.
Finish ==
    /\ driver.pc = "loop"
    /\ pos = Len(submission_files)
    /\ driver' = [driver EXCEPT !.pc = "done"]
    /\ UNCHANGED <<dir, outdir, submission_files, pos, successful, failed, fixed_count,
                   written, fileVars, nameVars>>

BatchNext == Discover \/ StepSubmissions \/ StepCodeUrls \/ Finish

BatchSpec == BatchInit /\ [][BatchNext]_vars

\* The files discovered, as the set the directory held at the start of the loop.
Discovered == {submission_files[i] : i \in 1..Len(submission_files)}

\* C5: a batch driver that has not returned is at a step it can take (the
\* discovery, the next file, which is there to read, or the summary), whatever
\* the per-file calls returned so far, and has processed the first pos
\* discovered files once each, in order; a driver that has returned has
\* processed every discovered file; batch_fix_submissions then has
\* successful + failed equal to the number of discovered files and
\* batch_fix_code_urls has fixed_count at most that number.
C5_BatchCompletes ==
    /\ driver.pc # "done" =>
            \/ driver.pc = "start"
            \/ driver.pc = "loop" /\ pos = Len(submission_files)
            \/ /\ driver.pc = "loop"
               /\ pos < Len(submission_files)
               /\ submission_files[pos + 1] \in DOMAIN dir
    /\ Len(written) = pos
    /\ pos <= Len(submission_files)
    /\ \A i \in 1..Len(written) : written[i].input = submission_files[i]
    /\ Cardinality(Discovered) = Len(submission_files)
    /\ driver.pc = "done" =>
            /\ pos = Len(submission_files)
            /\ driver.name = "batch_fix_submissions" =>
                    successful + failed = Len(submission_files)
            /\ driver.name = "batch_fix_code_urls" =>
                    fixed_count <= Len(submission_files)

\* C5's case: a batch_fix_submissions run has returned; its first file failed
\* and a later one succeeded.
C5_Witness ==
    /\ driver.name = "batch_fix_submissions"
    /\ driver.pc = "done"
    /\ Len(written) >= 2
    /\ ~written[1].ret
    /\ written[Len(written)].ret
    /\ successful + failed = Len(submission_files)

\* C9: in one batch_fix_submissions run, distinct discovered files that were
\* written are written to distinct output paths, and no written file's output
\* path is the path of another discovered input file.
C9_DistinctOutputs ==
    driver.name = "batch_fix_submissions" =>
        \A i, j \in 1..Len(written) :
            (i # j /\ written[i].ret) =>
                /\ written[j].ret => written[i].output # written[j].output
                /\ written[i].output # [d |-> "in", name |-> written[j].input]

====
